---- MODULE Spec2Model ----
(***************************************************************************)
(* Model of the nightly-incidents dashboard: the scheduled cache policy    *)
(* and statistics calculator of buildStatusService.ts and the page load    *)
(* of IncidentCounter.tsx.                                                 *)
(*                                                                         *)
(* Time is counted in whole hours of the local wall clock.  A JavaScript   *)
(* value that may be null/undefined is modelled as a sequence of length    *)
(* 0 (absent) or 1 (present).                                              *)
(***************************************************************************)
EXTENDS Integers, Sequences, FiniteSets, TLC

VARIABLES now, store, pc, statsData, buildsData, batchIn, fetchFailed,
          cacheHit, requests, view, loads, calcAt, lastWrite, tz

vars == <<now, store, pc, statsData, buildsData, batchIn, fetchFailed,
          cacheHit, requests, view, loads, calcAt, lastWrite, tz>>

----------------------------------------------------------------------------
(* Bounds of the model *)

MaxTime == 8
MaxLoads == 2
NumRuns == 11
MaxLen == 3
MaxNow == 49

(* Program constants *)

DayLen == 24
UPDATE_HOURS == <<6, 13, 19, 23>>
DisplayLimit == 10
PlaceholderCount == 10
PlaceholderFailureAt == 4
PlaceholderTotal == 672
PlaceholderTopRun == 672

Fetchers == {"stats", "builds"}

Absent == <<>>
Some(v) == <<v>>

Max2(a, b) == IF a >= b THEN a ELSE b

----------------------------------------------------------------------------
(* getNextUpdateTime: the first hour of UPDATE_HOURS, in array order, whose *)
(* instant on today's date is later than t; else UPDATE_HOURS[0] tomorrow.  *)

(* Variant: an update hour equal to the current time is accepted. *)
RECURSIVE NextHourFrom_NotStrict(_, _, _)
NextHourFrom_NotStrict(today, t, i) ==
    IF i > Len(UPDATE_HOURS)
    THEN today + DayLen + UPDATE_HOURS[1]
    ELSE IF today + UPDATE_HOURS[i] >= t
         THEN today + UPDATE_HOURS[i]
         ELSE NextHourFrom_NotStrict(today, t, i + 1)

RECURSIVE NextHourFrom(_, _, _)
NextHourFrom(today, t, i) ==
    IF i > Len(UPDATE_HOURS)
    THEN today + DayLen + UPDATE_HOURS[1]
    ELSE IF today + UPDATE_HOURS[i] > t
         THEN today + UPDATE_HOURS[i]
         ELSE NextHourFrom(today, t, i + 1)

getNextUpdateTime(t) == NextHourFrom((t \div DayLen) * DayLen, t, 1)

----------------------------------------------------------------------------
(* The value held under CACHE_KEY in localStorage.                          *)
(*   kind "none"    : no item (getItem returns null)                        *)
(*   kind "garbage" : a string JSON.parse rejects                           *)
(*   kind "null"    : the JSON text null                                    *)
(*   kind "object"  : a JSON object; each CachedData field may be missing   *)

NoItem == [kind |-> "none", stats |-> Absent, builds |-> Absent,
           lastFetched |-> Absent, nextUpdate |-> Absent]

StoredOther(k) == [NoItem EXCEPT !.kind = k]

(* Variant: the snapshot is still served at the instant of its nextUpdate. *)
getCachedData_ServedAtExpiry(s, t) ==
    IF s.kind # "object" THEN Absent
    ELSE IF s.nextUpdate = Absent THEN Absent
    ELSE IF t <= s.nextUpdate[1] THEN Some(s)
    ELSE Absent

(* Variant: the comparison is reversed, a snapshot is served once expired. *)
getCachedData_Reversed(s, t) ==
    IF s.kind # "object" THEN Absent
    ELSE IF s.nextUpdate = Absent THEN Absent
    ELSE IF s.nextUpdate[1] < t THEN Some(s)
    ELSE Absent

(* getCachedData: the parsed object when now < nextUpdate, else null.  A    *)
(* missing item, a parse error and a property read on null all end in the  *)
(* final return null; a missing nextUpdate gives an Invalid Date, for which *)
(* the comparison is false.  No other field is inspected.                   *)
getCachedData(s, t) ==
    IF s.kind # "object" THEN Absent
    ELSE IF s.nextUpdate = Absent THEN Absent
    ELSE IF t < s.nextUpdate[1] THEN Some(s)
    ELSE Absent

(* Variant: the catch block removes the item when setItem is rejected. *)
saveToCache_ClearsOnReject(s, stats, builds, t, writeOk) ==
    IF writeOk
    THEN [kind |-> "object", stats |-> Some(stats), builds |-> Some(builds),
          lastFetched |-> Some(t), nextUpdate |-> Some(getNextUpdateTime(t))]
    ELSE NoItem

(* saveToCache: writes the snapshot; a rejected setItem is caught and the   *)
(* store keeps its previous value.                                          *)
saveToCache(s, stats, builds, t, writeOk) ==
    IF writeOk
    THEN [kind |-> "object", stats |-> Some(stats), builds |-> Some(builds),
          lastFetched |-> Some(t), nextUpdate |-> Some(getNextUpdateTime(t))]
    ELSE s

----------------------------------------------------------------------------
(* Array.prototype.sort with the comparator b.date - a.date: a stable sort  *)
(* by date, newest first.                                                   *)

RECURSIVE InsertDesc(_, _)
InsertDesc(sorted, r) ==
    IF sorted = <<>> THEN <<r>>
    ELSE IF Head(sorted).date >= r.date
         THEN <<Head(sorted)>> \o InsertDesc(Tail(sorted), r)
         ELSE <<r>> \o sorted

(* Variant: the batch is used in its order of arrival. *)
SortByDateDesc_Unsorted(builds) == builds

RECURSIVE SortByDateDesc(_)
SortByDateDesc(builds) ==
    IF builds = <<>> THEN <<>>
    ELSE InsertDesc(SortByDateDesc(SubSeq(builds, 1, Len(builds) - 1)),
                    builds[Len(builds)])

DaysDiff(t, date) == (t - date) \div DayLen

(* Variant: the loop does not stop at the first failure. *)
RECURSIVE IncidentLoop_NoBreak(_, _, _, _)
IncidentLoop_NoBreak(sorted, i, days, t) ==
    IF i > Len(sorted)
    THEN [daysWithoutIncident |-> days, lastIncidentDate |-> Absent]
    ELSE LET rest == IncidentLoop_NoBreak(
                        sorted, i + 1,
                        IF sorted[i].status = "failure" THEN days
                        ELSE Max2(days, DaysDiff(t, sorted[i].date) + 1), t)
         IN IF sorted[i].status = "failure" /\ rest.lastIncidentDate = Absent
            THEN [rest EXCEPT !.lastIncidentDate = Some(sorted[i].date)]
            ELSE rest

(* The loop of lines 210-223: stops at the first failure. *)
RECURSIVE IncidentLoop(_, _, _, _)
IncidentLoop(sorted, i, days, t) ==
    IF i > Len(sorted)
    THEN [daysWithoutIncident |-> days, lastIncidentDate |-> Absent]
    ELSE IF sorted[i].status = "failure"
         THEN [daysWithoutIncident |-> days,
               lastIncidentDate |-> Some(sorted[i].date)]
         ELSE IncidentLoop(sorted, i + 1,
                           Max2(days, DaysDiff(t, sorted[i].date) + 1), t)

(* The loop of lines 242-249. *)
RECURSIVE StreakLoop(_, _, _)
StreakLoop(sorted, i, streak) ==
    IF i > Len(sorted) THEN streak
    ELSE IF sorted[i].status = "success"
         THEN StreakLoop(sorted, i + 1, streak + 1)
         ELSE streak

SuccessfulBuilds(builds) ==
    Cardinality({i \in 1..Len(builds) : builds[i].status = "success"})

(* Variant: the rate is taken over the failures. *)
SuccessRate_OfFailures(builds) ==
    IF Len(builds) > 0
    THEN [num |-> (Len(builds) - SuccessfulBuilds(builds)) * 100,
          den |-> Len(builds)]
    ELSE [num |-> 0, den |-> 1]

(* successRate is the quotient successfulBuilds / builds.length times 100,  *)
(* kept as an exact fraction num/den.                                       *)
SuccessRate(builds) ==
    IF Len(builds) > 0
    THEN [num |-> SuccessfulBuilds(builds) * 100, den |-> Len(builds)]
    ELSE [num |-> 0, den |-> 1]

emptyStats ==
    [daysWithoutIncident |-> 0, lastIncidentDate |-> Absent, totalBuilds |-> 0,
     successRate |-> [num |-> 0, den |-> 1], streak |-> 0]

(* Variant: without a failure the days are counted from the newest build. *)
ComputeStats_FromNewest(builds, totalCount, t) ==
    IF Len(builds) = 0 THEN emptyStats
    ELSE LET sortedBuilds == SortByDateDesc(builds)
             loop == IncidentLoop(sortedBuilds, 1, 0, t)
             days == IF loop.lastIncidentDate = Absent
                     THEN DaysDiff(t, sortedBuilds[1].date) + 1
                     ELSE loop.daysWithoutIncident
         IN [daysWithoutIncident |-> days,
             lastIncidentDate |-> loop.lastIncidentDate,
             totalBuilds |-> totalCount,
             successRate |-> SuccessRate(sortedBuilds),
             streak |-> StreakLoop(sortedBuilds, 1, 0)]

(* The statistics of fetchBuildStatus for a fetched batch, at time t. *)
ComputeStats(builds, totalCount, t) ==
    IF Len(builds) = 0 THEN emptyStats
    ELSE LET sortedBuilds == SortByDateDesc(builds)
             loop == IncidentLoop(sortedBuilds, 1, 0, t)
             oldestBuild == sortedBuilds[Len(sortedBuilds)]
             days == IF loop.lastIncidentDate = Absent
                     THEN DaysDiff(t, oldestBuild.date) + 1
                     ELSE loop.daysWithoutIncident
         IN [daysWithoutIncident |-> days,
             lastIncidentDate |-> loop.lastIncidentDate,
             totalBuilds |-> totalCount,
             successRate |-> SuccessRate(sortedBuilds),
             streak |-> StreakLoop(sortedBuilds, 1, 0)]

(* The array handed to saveToCache: [] for an empty batch, otherwise the    *)
(* fetched array, which sort() has reordered in place.                      *)
CachedBuilds(builds) == SortByDateDesc(builds)

(* Array.prototype.slice(0, 10) *)
FirstBuilds(builds) ==
    SubSeq(builds, 1, IF Len(builds) < DisplayLimit THEN Len(builds)
                      ELSE DisplayLimit)

----------------------------------------------------------------------------
(* The simulated series of the catch block of fetchWorkflowRuns.            *)
(*                                                                          *)
(* date.setDate(today.getDate() - i) moves the LOCAL calendar date back i   *)
(* days and keeps the local time of day.  In a time zone whose clocks were  *)
(* moved within those days the elapsed time is not i * 24 hours: zone is    *)
(* the clock change of the browser's time zone, daysAgo local days back.    *)
(* The variable tz holds it; it is the same for every call of a session.    *)

NoShift == [kind |-> "none", daysAgo |-> 0]

ZoneShifts ==
    {NoShift, [kind |-> "forward", daysAgo |-> 3],
     [kind |-> "back", daysAgo |-> 1]}

OneHour == DayLen \div 24

LocalDaysAgo(t, i, zone) ==
    t - i * DayLen
      + (IF zone.kind = "forward" /\ i >= zone.daysAgo THEN OneHour
         ELSE IF zone.kind = "back" /\ i >= zone.daysAgo THEN 0 - OneHour
         ELSE 0)

PlaceholderBuilds(t, zone) ==
    [k \in 1..PlaceholderCount |->
        [date |-> LocalDaysAgo(t, k - 1, zone),
         status |-> IF k - 1 < PlaceholderFailureAt THEN "success"
                    ELSE IF k - 1 = PlaceholderFailureAt THEN "failure"
                    ELSE "success",
         runNumber |-> PlaceholderTopRun - (k - 1)]]

Placeholder(t, zone) ==
    [builds |-> PlaceholderBuilds(t, zone), totalCount |-> PlaceholderTotal]

(* The value fetchWorkflowRuns returns for a run list: total_count when it  *)
(* is truthy, else the number of builds.                                    *)
RunsResult(batch, total) ==
    [builds |-> batch, totalCount |-> IF total # 0 THEN total ELSE Len(batch)]

----------------------------------------------------------------------------
(* State after construction of the component, before its effect has run.    *)

InitialView ==
    [loading |-> TRUE, stats |-> Absent, recentBuilds |-> <<>>, error |-> FALSE]

NoRequests == [workflows |-> 0, runs |-> 0]

(* Values the cache key may hold when the page is opened. *)
ForeignNextUpdates == {MaxTime + 1}

ForeignObjects ==
    [kind : {"object"},
     stats : {Absent, Some(emptyStats)},
     builds : {Absent, Some(<<>>)},
     lastFetched : {Absent},
     nextUpdate : {Absent} \cup {Some(t) : t \in ForeignNextUpdates}]

StoredValues ==
    {NoItem, StoredOther("garbage"), StoredOther("null")} \cup ForeignObjects

Fresh ==
    /\ pc = [f \in Fetchers |-> "idle"]
    /\ statsData = Absent
    /\ buildsData = <<>>
    /\ batchIn = [f \in Fetchers |-> Absent]
    /\ fetchFailed = [f \in Fetchers |-> FALSE]
    /\ cacheHit = [f \in Fetchers |-> Absent]
    /\ requests = NoRequests
    /\ view = InitialView
    /\ calcAt = Absent

(* What the last call of saveToCache did: whether setItem was accepted,     *)
(* whether the data saved were the simulated series, in which load it ran,  *)
(* and the value the store had when setItem was rejected.                   *)
NoWrite ==
    [result |-> "none", placeholder |-> FALSE, load |-> 0, before |-> Absent]

WriteOutcome(writeOk, failed, s, load) ==
    [result |-> IF writeOk THEN "written" ELSE "rejected",
     placeholder |-> failed,
     load |-> load,
     before |-> IF writeOk THEN Absent ELSE Some(s)]

Init ==
    /\ now = UPDATE_HOURS[1] - 1
    /\ store \in StoredValues
    /\ loads = 1
    /\ lastWrite = NoWrite
    /\ tz \in ZoneShifts
    /\ Fresh

----------------------------------------------------------------------------
(* loadData up to its await: fetchBuildStatus() and fetchRecentBuilds() are *)
(* both called; each reads the cache and, on a miss, issues the GET of the  *)
(* workflow list.                                                           *)

HitInfo(c, t) == Some([at |-> t, nextUpdate |-> c[1].nextUpdate[1]])

StartLoad ==
    /\ pc["stats"] = "idle" /\ pc["builds"] = "idle"
    /\ LET cached == getCachedData(store, now)
           hit == cached # Absent
           buildsThrows == hit /\ cached[1].builds = Absent
       IN /\ pc' = [f \in Fetchers |->
                      IF ~hit THEN "workflows"
                      ELSE IF f = "builds" /\ buildsThrows THEN "thrown"
                      ELSE "done"]
          /\ statsData' = IF hit THEN cached[1].stats ELSE Absent
          /\ buildsData' = IF hit /\ ~buildsThrows
                           THEN FirstBuilds(cached[1].builds[1]) ELSE <<>>
          /\ cacheHit' = [f \in Fetchers |->
                            IF hit THEN HitInfo(cached, now) ELSE Absent]
          /\ requests' = [requests EXCEPT
                            !.workflows = IF hit THEN @ ELSE @ + 2]
    /\ UNCHANGED <<now, store, batchIn, fetchFailed, view, loads, calcAt,
                   lastWrite, tz>>

(* The code after "await fetchWorkflowRuns()" in the two callers. *)
Resume(f, result, failed) ==
    /\ pc' = [pc EXCEPT ![f] = "done"]
    /\ batchIn' = [batchIn EXCEPT ![f] = Some(result.builds)]
    /\ fetchFailed' = [fetchFailed EXCEPT ![f] = failed]
    /\ IF f = "stats"
       THEN \E writeOk \in BOOLEAN :
              LET stats == ComputeStats(result.builds, result.totalCount, now)
              IN /\ statsData' = Some(stats)
                 /\ store' = saveToCache(store, stats,
                                         CachedBuilds(result.builds), now,
                                         writeOk)
                 /\ calcAt' = Some(now)
                 /\ lastWrite' = WriteOutcome(writeOk, failed, store, loads)
                 /\ UNCHANGED buildsData
       ELSE /\ buildsData' = FirstBuilds(result.builds)
            /\ UNCHANGED <<statsData, store, calcAt, lastWrite>>

(* The workflow list arrives with an ok status and names the workflow: the  *)
(* GET of the run list is issued.                                           *)
FetchWorkflowsOk(f) ==
    /\ pc[f] = "workflows"
    /\ pc' = [pc EXCEPT ![f] = "runs"]
    /\ requests' = [requests EXCEPT !.runs = @ + 1]
    /\ UNCHANGED <<now, store, statsData, buildsData, batchIn, fetchFailed,
                   cacheHit, view, loads, calcAt, lastWrite, tz>>

(* The run list arrives with an ok status and a workflow_runs array. *)
FetchRunsOk(f, batches, totals) ==
    /\ pc[f] = "runs"
    /\ \E batch \in batches, total \in totals :
          Resume(f, RunsResult(batch, total), FALSE)
    /\ UNCHANGED <<now, cacheHit, requests, view, loads, tz>>

(* Anything thrown inside the try block of fetchWorkflowRuns. *)
FailureKinds ==
    [workflows |-> {"networkError", "httpStatus", "workflowNotFound",
                    "malformedBody"},
     runs |-> {"networkError", "httpStatus", "malformedBody"}]

FetchFails(f) ==
    /\ pc[f] \in {"workflows", "runs"}
    /\ \E kind \in FailureKinds[pc[f]] :
          Resume(f, Placeholder(now, tz), TRUE)
    /\ UNCHANGED <<now, cacheHit, requests, view, loads, tz>>

(* Promise.all settles: the try block sets stats and recentBuilds, or the   *)
(* catch block sets error; finally clears loading.                          *)
Settle ==
    /\ view.loading
    /\ \A f \in Fetchers : pc[f] \in {"done", "thrown"}
    /\ view' = IF \E f \in Fetchers : pc[f] = "thrown"
               THEN [view EXCEPT !.error = TRUE, !.loading = FALSE]
               ELSE [view EXCEPT !.stats = statsData,
                                 !.recentBuilds = buildsData,
                                 !.loading = FALSE]
    /\ UNCHANGED <<now, store, pc, statsData, buildsData, batchIn,
                   fetchFailed, cacheHit, requests, loads, calcAt, lastWrite,
                   tz>>

(* What the component renders once loading is false (line 78). *)
FailedToLoad == ~view.loading /\ (view.error \/ view.stats = Absent)

(* The page is opened again: component state is rebuilt, the store stays. *)
Reload ==
    /\ ~view.loading
    /\ loads < MaxLoads
    /\ loads' = loads + 1
    /\ pc' = [f \in Fetchers |-> "idle"]
    /\ statsData' = Absent
    /\ buildsData' = <<>>
    /\ batchIn' = [f \in Fetchers |-> Absent]
    /\ fetchFailed' = [f \in Fetchers |-> FALSE]
    /\ cacheHit' = [f \in Fetchers |-> Absent]
    /\ requests' = NoRequests
    /\ view' = InitialView
    /\ calcAt' = Absent
    /\ UNCHANGED <<now, store, lastWrite, tz>>

Tick ==
    /\ now < MaxTime
    /\ now' = now + 1
    /\ UNCHANGED <<store, pc, statsData, buildsData, batchIn, fetchFailed,
                   cacheHit, requests, view, loads, calcAt, lastWrite, tz>>

----------------------------------------------------------------------------
(* Run lists the provider may return.  Run k was created one day after run  *)
(* k - 1; the newest run is NumRuns.                                        *)

RunDate(k) == (k - NumRuns) * DayLen + 2

Run(k, failures) ==
    [date |-> RunDate(k),
     status |-> IF k \in failures THEN "failure" ELSE "success",
     runNumber |-> k]

NewestFirst(n, failures) == [i \in 1..n |-> Run(NumRuns + 1 - i, failures)]
OldestFirst(n, failures) == [i \in 1..n |-> Run(NumRuns - n + i, failures)]

ProviderBatches ==
    {<<>>, NewestFirst(NumRuns, {NumRuns - 2}),
     OldestFirst(NumRuns, {NumRuns - 2})}

ProviderTotals == {0, 700}

Next ==
    \/ StartLoad
    \/ \E f \in Fetchers : FetchWorkflowsOk(f)
    \/ \E f \in Fetchers : FetchRunsOk(f, ProviderBatches, ProviderTotals)
    \/ \E f \in Fetchers : FetchFails(f)
    \/ Settle
    \/ Reload
    \/ Tick

Spec == Init /\ [][Next]_vars

----------------------------------------------------------------------------
(* Properties of the page load (Spec) *)

Elems(seq) == {seq[i] : i \in 1..Len(seq)}

ProgramSnapshot(s) == s.kind = "object" /\ s.lastFetched # Absent

(* C1: a load is served from the cache only when the time of the cache     *)
(* check is strictly before the snapshot's nextUpdate; every load that is   *)
(* not a cache hit gets its data from a fetch.                              *)
C1_ServedOnlyBeforeNextUpdate ==
    \A f \in Fetchers :
       /\ cacheHit[f] # Absent => cacheHit[f][1].at < cacheHit[f][1].nextUpdate
       /\ (pc[f] = "done" /\ cacheHit[f] = Absent) => batchIn[f] # Absent

(* A snapshot written by an earlier load has reached its nextUpdate and the *)
(* current load fetches instead of serving it.                              *)
C1_Witness ==
    /\ loads > 1
    /\ ProgramSnapshot(store)
    /\ store.nextUpdate[1] <= now
    /\ pc["stats"] = "workflows"
    /\ cacheHit["stats"] = Absent

(* C3: after a failed fetch the statistics are those of the placeholder     *)
(* series (streak 4, last incident at record 4, 4 days without incident,    *)
(* success rate 90, 672 builds) and the page does not show the failure view.*)
C3_PlaceholderStatistics ==
    (pc["stats"] = "done" /\ fetchFailed["stats"]) =>
       /\ Len(batchIn["stats"][1]) = PlaceholderCount
       /\ statsData # Absent
       /\ statsData[1].streak = 4
       /\ statsData[1].lastIncidentDate = Some(batchIn["stats"][1][5].date)
       /\ statsData[1].daysWithoutIncident = 4
       /\ statsData[1].successRate.num = 90 * statsData[1].successRate.den
       /\ statsData[1].totalBuilds = 672
       /\ ~FailedToLoad

WellFormed(s) ==
    /\ s.kind = "object"
    /\ s.stats # Absent /\ s.builds # Absent
    /\ s.lastFetched # Absent /\ s.nextUpdate # Absent

(* C8: a stored value that is missing, unparsable or not of the CachedData  *)
(* shape is never returned by getCachedData and never leads to the failure  *)
(* view.                                                                    *)
C8_CorruptStoreIsCacheMiss ==
    ~WellFormed(store) =>
       /\ \A f \in Fetchers : cacheHit[f] = Absent /\ pc[f] # "thrown"
       /\ ~FailedToLoad

(* C9: a page load issues at most one GET of the workflow list and at most  *)
(* one GET of the run list, and none when it is served from the cache.      *)
C9_OneFetchCycle ==
    /\ requests.workflows <= 1
    /\ requests.runs <= 1
    /\ (\E f \in Fetchers : cacheHit[f] # Absent) => requests = NoRequests

NewestOf(shown, batch) ==
    /\ Len(shown) = (IF Len(batch) < 10 THEN Len(batch) ELSE 10)
    /\ Elems(shown) \subseteq Elems(batch)
    /\ Cardinality(Elems(shown)) = Len(shown)
    /\ \A r \in Elems(batch) \ Elems(shown) :
          \A s \in Elems(shown) : s.date >= r.date

(* C10: the builds returned by fetchRecentBuilds are the (at most 10)       *)
(* newest records of the batch they come from, cached or freshly fetched.   *)
C10_RecentBuildsAreNewest ==
    pc["builds"] = "done" =>
       IF cacheHit["builds"] # Absent
       THEN NewestOf(buildsData, store.builds[1])
       ELSE NewestOf(buildsData, batchIn["builds"][1])

----------------------------------------------------------------------------
(* The statistics calculator on arbitrary batches (SpecCalc): one load with *)
(* an empty store whose stats fetch succeeds with any batch of up to MaxLen *)
(* records, or with the ten-day scenario of the specification.              *)

CalcNows == {30, 54}
CalcDates == {-20, 5, 6, 30, 80}
CalcTotals == {0, 700}

Statuses == {"success", "failure"}

BatchesOfLen(n) ==
    {[i \in 1..n |-> [date |-> c[i][1], status |-> c[i][2], runNumber |-> i]] :
        c \in [1..n -> CalcDates \X Statuses]}

ScenarioBatch(t) ==
    [k \in 1..10 |->
        [date |-> t - (k - 1) * DayLen,
         status |-> IF k = 5 THEN "failure" ELSE "success",
         runNumber |-> 100 - k]]

CalcBatches(t) ==
    UNION {BatchesOfLen(n) : n \in 0..MaxLen} \cup {ScenarioBatch(t)}

InitCalc ==
    /\ now \in CalcNows
    /\ store = NoItem
    /\ loads = 1
    /\ lastWrite = NoWrite
    /\ tz = NoShift
    /\ Fresh

NextCalc ==
    \/ StartLoad
    \/ FetchWorkflowsOk("stats")
    \/ FetchRunsOk("stats", CalcBatches(now), CalcTotals)

SpecCalc == InitCalc /\ [][NextCalc]_vars

Computed == pc["stats"] = "done" /\ ~fetchFailed["stats"] /\ cacheHit["stats"] = Absent
Batch == batchIn["stats"][1]
Stats == statsData[1]
Failures(b) == {i \in 1..Len(b) : b[i].status = "failure"}
Successes(b) == {i \in 1..Len(b) : b[i].status = "success"}
AgeDays(b, i, t) == (t - b[i].date) \div DayLen + 1

SetMax(S) == CHOOSE x \in S : \A y \in S : y <= x
SetMin(S) == CHOOSE x \in S : \A y \in S : x <= y

(* i comes before j when the batch is put in timestamp-descending order     *)
(* and records with equal timestamps keep their order of arrival.           *)
Precedes(b, i, j) ==
    b[i].date > b[j].date \/ (b[i].date = b[j].date /\ i < j)

FirstFailure(b) ==
    CHOOSE j \in Failures(b) : \A k \in Failures(b) \ {j} : Precedes(b, j, k)

IsScenario(b, t) == b = ScenarioBatch(t)

(* C4 as stated: with a failure in the batch, lastIncidentDate is the       *)
(* newest failure's timestamp and daysWithoutIncident is the maximum of     *)
(* floor((now - timestamp) / day) + 1 over the records newer than it, 0     *)
(* when there is none.                                                      *)
C4_MaxOverNewerRecords ==
    (Computed /\ Failures(Batch) # {}) =>
       LET last == SetMax({Batch[i].date : i \in Failures(Batch)})
           newer == {i \in 1..Len(Batch) : Batch[i].date > last}
       IN /\ Stats.lastIncidentDate = Some(last)
          /\ Stats.daysWithoutIncident =
               (IF newer = {} THEN 0
                ELSE SetMax({AgeDays(Batch, i, calcAt[1]) : i \in newer}))

(* C4 amended: daysWithoutIncident is the maximum of 0 and of               *)
(* floor((now - timestamp) / day) + 1 over the records that come before the *)
(* first failure in stable timestamp-descending order; the ten-day scenario *)
(* gives day4 and 4.                                                        *)
C4_MaxOverPrecedingRecords ==
    (Computed /\ Failures(Batch) # {}) =>
       LET jf == FirstFailure(Batch)
           before == {i \in 1..Len(Batch) : Precedes(Batch, i, jf)}
       IN /\ Stats.lastIncidentDate = Some(Batch[jf].date)
          /\ Batch[jf].date = SetMax({Batch[i].date : i \in Failures(Batch)})
          /\ Stats.daysWithoutIncident =
               SetMax({0} \cup {AgeDays(Batch, i, calcAt[1]) : i \in before})
          /\ IsScenario(Batch, calcAt[1]) =>
               /\ Stats.lastIncidentDate = Some(calcAt[1] - 4 * DayLen)
               /\ Stats.daysWithoutIncident = 4

(* A success that arrived before a failure of the same timestamp has been   *)
(* counted.                                                                 *)
C4_Witness ==
    /\ Computed
    /\ Len(Batch) = 2
    /\ Batch[1].status = "success" /\ Batch[2].status = "failure"
    /\ Batch[1].date = Batch[2].date
    /\ Stats.daysWithoutIncident = 2

(* C5: with no failure in a non-empty batch lastIncidentDate is absent and  *)
(* daysWithoutIncident is floor((now - oldest timestamp) / day) + 1;        *)
(* lastIncidentDate is absent only when the batch has no failure.           *)
C5_NoFailureCountsFromOldest ==
    Computed =>
       /\ (Len(Batch) > 0 /\ Failures(Batch) = {}) =>
             /\ Stats.lastIncidentDate = Absent
             /\ Stats.daysWithoutIncident =
                  (calcAt[1] - SetMin({Batch[i].date : i \in 1..Len(Batch)}))
                     \div DayLen + 1
       /\ Stats.lastIncidentDate = Absent => Failures(Batch) = {}

C5_Witness ==
    /\ Computed
    /\ Len(Batch) = 3 /\ Failures(Batch) = {}
    /\ Batch[1].date < Batch[2].date /\ Batch[3].date < Batch[1].date
    /\ Stats.daysWithoutIncident = 3

(* C6: the streak is the number of successes that have no failure before    *)
(* them in timestamp-descending order, whatever the order of arrival; it is *)
(* at most the number of records, 0 when the newest record is a failure and *)
(* the number of records when all are successes.                            *)
C6_StreakIsNewestSuccessRun ==
    Computed =>
       /\ Stats.streak =
            Cardinality({i \in Successes(Batch) :
                            \A j \in Failures(Batch) : Precedes(Batch, i, j)})
       /\ Stats.streak <= Len(Batch)
       /\ Failures(Batch) = {} => Stats.streak = Len(Batch)
       /\ (\E j \in Failures(Batch) :
              \A i \in 1..Len(Batch) : i # j => Batch[j].date > Batch[i].date)
            => Stats.streak = 0

(* The newest record arrived last, after an older failure. *)
C6_Witness ==
    /\ Computed
    /\ Len(Batch) = 3
    /\ Batch[1].status = "success" /\ Batch[2].status = "failure"
    /\ Batch[3].status = "success"
    /\ Batch[1].date < Batch[2].date /\ Batch[2].date < Batch[3].date
    /\ Stats.streak = 1

(* C7: successRate is 100 * successes / records for a non-empty batch, lies *)
(* in [0,100] and is 100 exactly when every record is a success; the empty  *)
(* batch gives the all-zero statistics.                                     *)
C7_SuccessRate ==
    Computed =>
       LET rate == Stats.successRate
       IN /\ rate.den > 0
          /\ Len(Batch) > 0 =>
               /\ rate.num * Len(Batch)
                    = 100 * Cardinality(Successes(Batch)) * rate.den
               /\ 0 <= rate.num /\ rate.num <= 100 * rate.den
               /\ rate.num = 100 * rate.den <=> Failures(Batch) = {}
          /\ Len(Batch) = 0 =>
               /\ Stats.daysWithoutIncident = 0
               /\ Stats.lastIncidentDate = Absent
               /\ Stats.totalBuilds = 0
               /\ rate.num = 0
               /\ Stats.streak = 0

C7_Witness ==
    /\ Computed
    /\ Len(Batch) = 3
    /\ Cardinality(Successes(Batch)) = 2
    /\ Stats.successRate.num * 3 = 200 * Stats.successRate.den

----------------------------------------------------------------------------
(* The refresh schedule (SpecSched): the page is opened at any hour of two  *)
(* days, the fetch fails, the snapshot is written, and the page is opened   *)
(* again at the very hour the snapshot names as its nextUpdate.             *)

InitSched ==
    /\ now \in 0..MaxNow
    /\ store = NoItem
    /\ loads = 1
    /\ lastWrite = NoWrite
    /\ tz = NoShift
    /\ Fresh

(* The clock reaches the nextUpdate of the stored snapshot. *)
WaitForRefresh ==
    /\ ~view.loading
    /\ ProgramSnapshot(store)
    /\ now < store.nextUpdate[1]
    /\ now' = store.nextUpdate[1]
    /\ UNCHANGED <<store, pc, statsData, buildsData, batchIn, fetchFailed,
                   cacheHit, requests, view, loads, calcAt, lastWrite, tz>>

NextSched ==
    \/ StartLoad
    \/ \E f \in Fetchers : FetchFails(f)
    \/ Settle
    \/ WaitForRefresh
    \/ Reload

SpecSched == InitSched /\ [][NextSched]_vars

ConfiguredHours == {6, 13, 19, 23}

HourOf(t) == t % DayLen
DayStart(t) == t - HourOf(t)

EarliestConfiguredAfter(t) ==
    LET later == {x \in {DayStart(t) + h : h \in ConfiguredHours} : x > t}
    IN IF later # {} THEN SetMin(later) ELSE DayStart(t) + DayLen + 6

CycleSuccessor(t) ==
    CASE HourOf(t) = 6 -> DayStart(t) + 13
      [] HourOf(t) = 13 -> DayStart(t) + 19
      [] HourOf(t) = 19 -> DayStart(t) + 23
      [] HourOf(t) = 23 -> DayStart(t) + DayLen + 6

(* C2: the nextUpdate of a snapshot written at time t is the earliest of    *)
(* 06:00, 13:00, 19:00, 23:00 of t's day that is strictly later than t, or  *)
(* 06:00 of the next day; it is later than t, and getNextUpdateTime applied *)
(* to it gives the following hour of the cycle 6, 13, 19, 23, 6.            *)
C2_NextUpdateIsNextConfiguredHour ==
    ProgramSnapshot(store) =>
       LET t == store.lastFetched[1]
           r == store.nextUpdate[1]
       IN /\ r = EarliestConfiguredAfter(t)
          /\ r > t
          /\ HourOf(r) \in ConfiguredHours
          /\ getNextUpdateTime(r) = CycleSuccessor(r)
          /\ HourOf(t) \in ConfiguredHours => r = CycleSuccessor(t)

(* The second load ran at 23:00, the nextUpdate of the first snapshot, and  *)
(* scheduled 06:00 of the following day.                                    *)
C2_Witness ==
    /\ loads = 2
    /\ ProgramSnapshot(store)
    /\ HourOf(store.lastFetched[1]) = 23
    /\ store.nextUpdate[1] = store.lastFetched[1] + 7

----------------------------------------------------------------------------
(* Properties of the persisted snapshot *)

(* C11: the builds of the persisted snapshot are at most 10 records. *)
C11_SnapshotHoldsAtMostTen ==
    store.builds # Absent => Len(store.builds[1]) <= 10

(* C12: daysWithoutIncident, as returned and as stored, is never negative,  *)
(* also for records dated after the current time.                           *)
C12_DaysNeverNegative ==
    /\ Computed => Stats.daysWithoutIncident >= 0
    /\ store.stats # Absent => store.stats[1].daysWithoutIncident >= 0

(* C13: a fetch-and-compute cycle at time t returns the statistics and     *)
(* persists them with lastFetched = t and nextUpdate = the next configured  *)
(* hour after t; when the store rejects the write the statistics are still  *)
(* returned, the store keeps the value it had, and the following page load  *)
(* fetches again.                                                           *)
C13_SaveOrKeepStore ==
    /\ (pc["stats"] = "done" /\ cacheHit["stats"] = Absent) =>
          /\ statsData # Absent
          /\ lastWrite.load = loads
          /\ lastWrite.result \in {"written", "rejected"}
          /\ lastWrite.result = "written" =>
                /\ store.kind = "object"
                /\ store.stats = statsData
                /\ store.lastFetched = calcAt
                /\ store.nextUpdate = Some(EarliestConfiguredAfter(calcAt[1]))
          /\ lastWrite.result = "rejected" => store = lastWrite.before[1]
    /\ \A f \in Fetchers :
          (lastWrite.result = "rejected" /\ pc[f] # "idle")
             => cacheHit[f] = Absent /\ pc[f] # "thrown"

(* The write of the first load was rejected and the second load fetches. *)
C13_Witness ==
    /\ loads = 2
    /\ lastWrite.result = "rejected" /\ lastWrite.load = 1
    /\ pc["stats"] = "workflows"
    /\ requests.workflows > 0

(* C14: when a load has completed without error, every build shown comes   *)
(* from the batch the shown statistics were computed from.                  *)
C14_ViewFromOneBatch ==
    (~view.loading /\ ~view.error) =>
       LET source == IF cacheHit["stats"] # Absent THEN store.builds[1]
                     ELSE batchIn["stats"][1]
       IN Elems(view.recentBuilds) \subseteq Elems(source)

(* The store holds a snapshot saved from the simulated series. *)
PlaceholderSaved == lastWrite.result = "written" /\ lastWrite.placeholder

IsPlaceholderSeries(builds) ==
    /\ Len(builds) = 10
    /\ \A k \in 1..10 :
          /\ builds[k].runNumber = 672 - (k - 1)
          /\ builds[k].status = (IF k = 5 THEN "failure" ELSE "success")

(* C15: after a failed fetch whose result was saved, the snapshot holds the *)
(* simulated series and its statistics, and every later load that starts    *)
(* before the snapshot's nextUpdate returns them and issues no request.     *)
C15_PlaceholderServedUntilNextUpdate ==
    PlaceholderSaved =>
       /\ store.kind = "object"
       /\ IsPlaceholderSeries(store.builds[1])
       /\ store.stats =
            Some(ComputeStats(store.builds[1], 672, store.lastFetched[1]))
       /\ store.stats[1].streak = 4
       /\ store.stats[1].lastIncidentDate = Some(store.builds[1][5].date)
       /\ lastWrite.load < loads =>
            /\ \A f \in Fetchers :
                  pc[f] # "idle" =>
                     \/ /\ cacheHit[f] # Absent
                        /\ pc[f] = "done"
                        /\ requests = NoRequests
                        /\ statsData = store.stats
                        /\ buildsData = FirstBuilds(store.builds[1])
                     \/ now >= store.nextUpdate[1]
            /\ (~view.loading /\ cacheHit["stats"] # Absent) =>
                  /\ ~view.error
                  /\ view.stats = store.stats
                  /\ view.recentBuilds = FirstBuilds(store.builds[1])

(* The second load, before the nextUpdate, shows the simulated data of the  *)
(* first without a request.                                                 *)
C15_Witness ==
    /\ PlaceholderSaved
    /\ lastWrite.load = 1 /\ loads = 2
    /\ now < store.nextUpdate[1]
    /\ ~view.loading
    /\ requests = NoRequests
    /\ view.stats = store.stats
    /\ Len(view.recentBuilds) = 10

====
